---- MODULE Spec2Model ----
(***************************************************************************)
(* Model of python-nvp (nvp/util.py and nvp/__init__.py): the codec        *)
(* between flat NVP keys (a.b[0], a.b(0), L_A_0_B1) and hierarchical       *)
(* dictionaries.                                                           *)
(*                                                                         *)
(* Python strings are sequences of one-character strings.  Python values   *)
(* are tagged records [t, v]:                                              *)
(*   t = "s"  a text scalar, v its characters                              *)
(*   t = "l"  a list, v the sequence of its elements                       *)
(*   t = "m"  a dict, v a function from keys to values                     *)
(*   t = "k"  a string used as key or key component, v its characters      *)
(*   t = "i"  an int used as key or key component, v the integer           *)
(* The outcome of a call is [exc, v]: exc = "none" and the returned value, *)
(* or the name of the exception that propagated out of the call.           *)
(***************************************************************************)
EXTENDS Integers, Sequences, FiniteSets, TLC

S(s) == [t |-> "s", v |-> s]
L(s) == [t |-> "l", v |-> s]
M(f) == [t |-> "m", v |-> f]
K(s) == [t |-> "k", v |-> s]
I(n) == [t |-> "i", v |-> n]

Return(x) == [exc |-> "none", v |-> x]
Raise(e) == [exc |-> e, v |-> <<>>]

EmptyDict == M(<<>>)
EmptyList == L(<<>>)

(***************************************************************************)
(* Characters in ASCII order, used by the comparison of str.               *)
(***************************************************************************)
Digits == <<"0", "1", "2", "3", "4", "5", "6", "7", "8", "9">>

Chars ==
    <<" ", "%", "&", "(", ")", "+", "-", ".">> \o Digits \o <<"=">> \o
    <<"A", "B", "C", "D", "E", "F", "G", "H", "I", "J", "K", "L", "M",
      "N", "O", "P", "Q", "R", "S", "T", "U", "V", "W", "X", "Y", "Z">> \o
    <<"[", "]", "_">> \o
    <<"a", "b", "c", "d", "e", "f", "g", "h", "i", "j", "k", "l", "m",
      "n", "o", "p", "q", "r", "s", "t", "u", "v", "w", "x", "y", "z">>

Ord(c) == CHOOSE i \in 1..Len(Chars) : Chars[i] = c

IsDigit(c) == \E i \in 1..10 : Digits[i] = c

DigitVal(c) == (CHOOSE i \in 1..10 : Digits[i] = c) - 1

(***************************************************************************)
(* str primitives.                                                         *)
(***************************************************************************)
\* s[from:to] for 1-based inclusive positions; empty when from > to
Slice(s, from, to) ==
    IF from > to THEN <<>> ELSE [i \in 1..(to - from + 1) |-> s[from + i - 1]]

\* str.startswith
StartsWith(s, p) ==
    /\ Len(s) >= Len(p)
    /\ \A i \in 1..Len(p) : s[i] = p[i]

\* 1-based position of the first occurrence of character c, 0 when absent
\* (str.find(c) + 1)
Find(s, c) ==
    IF \E i \in 1..Len(s) : s[i] = c
    THEN CHOOSE i \in 1..Len(s) : s[i] = c /\ \A j \in 1..(i - 1) : s[j] # c
    ELSE 0

\* 1-based position of the last occurrence of character c, 0 when absent
\* (str.rindex raises ValueError in that case)
RIndex(s, c) ==
    IF \E i \in 1..Len(s) : s[i] = c
    THEN CHOOSE i \in 1..Len(s) : s[i] = c /\ \A j \in (i + 1)..Len(s) : s[j] # c
    ELSE 0

\* str.split(sep) for a one-character separator
RECURSIVE Split(_, _)
Split(s, sep) ==
    LET at == Find(s, sep)
    IN  IF at = 0 THEN <<s>>
        ELSE <<Slice(s, 1, at - 1)>> \o Split(Slice(s, at + 1, Len(s)), sep)

\* sep.join(parts)
RECURSIVE Join(_, _)
Join(sep, parts) ==
    IF Len(parts) = 0 THEN <<>>
    ELSE IF Len(parts) = 1 THEN parts[1]
    ELSE parts[1] \o sep \o Join(sep, Tail(parts))

RECURSIVE DigitsValue(_)
DigitsValue(s) ==
    IF Len(s) = 0 THEN 0
    ELSE 10 * DigitsValue(Slice(s, 1, Len(s) - 1)) + DigitVal(s[Len(s)])

\* int(s): an optional sign followed by at least one decimal digit,
\* ValueError otherwise
PyInt(s) ==
    LET signed == Len(s) > 0 /\ s[1] \in {"-", "+"}
        body == IF signed THEN Tail(s) ELSE s
    IN  IF Len(body) = 0 \/ \E i \in 1..Len(body) : ~IsDigit(body[i])
        THEN Raise("ValueError")
        ELSE IF signed /\ s[1] = "-" THEN Return(0 - DigitsValue(body))
        ELSE Return(DigitsValue(body))

\* '%d' % n
RECURSIVE FormatInt(_)
FormatInt(n) ==
    IF n < 0 THEN <<"-">> \o FormatInt(0 - n)
    ELSE IF n < 10 THEN <<Digits[n + 1]>>
    ELSE FormatInt(n \div 10) \o <<Digits[(n % 10) + 1]>>

\* a < b for str
RECURSIVE StrLess(_, _)
StrLess(a, b) ==
    IF Len(b) = 0 THEN FALSE
    ELSE IF Len(a) = 0 THEN TRUE
    ELSE IF a[1] # b[1] THEN Ord(a[1]) < Ord(b[1])
    ELSE StrLess(Tail(a), Tail(b))

\* sorted(keys) for a set of str
RECURSIVE Sorted(_)
Sorted(keys) ==
    IF keys = {} THEN <<>>
    ELSE LET least == CHOOSE k \in keys : \A o \in keys \ {k} : StrLess(k, o)
         IN  <<least>> \o Sorted(keys \ {least})

(***************************************************************************)
(* Module constants of nvp/util.py.                                        *)
(***************************************************************************)
CONVENTION_PREFIX == "prefix"
CONVENTION_BRACKET == "bracket"
CONVENTION_PARENTHESES == "parentheses"
DEFAULT_CONVENTION == CONVENTION_BRACKET
KEY_HIERARCHY_SEPARATOR == <<".">>
KEY_PREFIX_HIERARCHY_SEPARATOR == <<"_">>
PREFIX_KEY_VALUE == <<"L", "_">>
\* the value detect_key_convention returns for a key without a convention
NoConvention == "False"

(***************************************************************************)
(* Type helpers.                                                           *)
(***************************************************************************)
is_string(obj) == obj.t \in {"s", "k"}
is_int(obj) == obj.t = "i"
is_dict(obj) == obj.t = "m"
is_non_string_sequence(obj) == obj.t = "l"

\* sequence[index] succeeds: Python accepts -len .. len-1
sequence_has_index(sequence, index) ==
    /\ index < Len(sequence)
    /\ index >= 0 - Len(sequence)

\* 1-based position of sequence[index] for an index the sequence has
Position(sequence, index) ==
    IF index >= 0 THEN index + 1 ELSE Len(sequence) + index + 1

\* list.insert(index, item): out-of-range indices are clamped
ListInsert(sequence, index, item) ==
    LET n == Len(sequence)
        shifted == IF index < 0 THEN index + n ELSE index
        at == IF shifted < 0 THEN 0 ELSE IF shifted > n THEN n ELSE shifted
    IN  Slice(sequence, 1, at) \o <<item>> \o Slice(sequence, at + 1, n)

(***************************************************************************)
(* Key generation.                                                         *)
(***************************************************************************)
\* generate_key_component numbering the elements of a list from 1
generate_key_component_one_based(key, index, convention) ==
    IF convention = CONVENTION_BRACKET
    THEN Return(key \o <<"[">> \o FormatInt(index + 1) \o <<"]">>)
    ELSE IF convention = CONVENTION_PARENTHESES
    THEN Return(key \o <<"(">> \o FormatInt(index + 1) \o <<")">>)
    ELSE IF convention = CONVENTION_PREFIX
    THEN Return(key \o KEY_PREFIX_HIERARCHY_SEPARATOR \o FormatInt(index + 1))
    ELSE Raise("ValueError")

generate_key_component(key, index, convention) ==
    IF convention = CONVENTION_BRACKET
    THEN Return(key \o <<"[">> \o FormatInt(index) \o <<"]">>)
    ELSE IF convention = CONVENTION_PARENTHESES
    THEN Return(key \o <<"(">> \o FormatInt(index) \o <<")">>)
    ELSE IF convention = CONVENTION_PREFIX
    THEN Return(key \o KEY_PREFIX_HIERARCHY_SEPARATOR \o FormatInt(index))
    ELSE Raise("ValueError")

\* components is a non-empty sequence of str
generate_key(components, convention) ==
    IF convention \in {CONVENTION_BRACKET, CONVENTION_PARENTHESES}
    THEN Join(KEY_HIERARCHY_SEPARATOR, components)
    ELSE LET n == Len(components)
             parts == Split(components[n], "_")
             is_value_sequential == Len(parts) = 2
             last == IF is_value_sequential
                     THEN parts[1] \o parts[2] ELSE components[n]
             key_path == Join(KEY_PREFIX_HIERARCHY_SEPARATOR,
                              Slice(components, 1, n - 1) \o <<last>>)
         IN  IF is_value_sequential
             THEN PREFIX_KEY_VALUE \o key_path ELSE key_path

\* the list components once generate_key has returned: line 386 replaces
\* its last element in place
ComponentsAfter(components, convention) ==
    IF convention \in {CONVENTION_BRACKET, CONVENTION_PARENTHESES}
    THEN components
    ELSE IF Len(Split(components[Len(components)], "_")) = 2
    THEN [components EXCEPT ![Len(components)] =
              Split(components[Len(components)], "_")[1]
              \o Split(components[Len(components)], "_")[2]]
    ELSE components

(***************************************************************************)
(* Key parsing.                                                            *)
(***************************************************************************)
\* number of digit characters at the end of key
RECURSIVE TrailingDigits(_)
TrailingDigits(key) ==
    IF Len(key) = 0 \/ ~IsDigit(key[Len(key)]) THEN 0
    ELSE 1 + TrailingDigits(Slice(key, 1, Len(key) - 1))

parse_prefix_key_with_index(key) ==
    LET n == TrailingDigits(key)
    IN  IF n = Len(key) THEN Raise("IndexError")
        ELSE IF n > 0
        THEN Return([key |-> Slice(key, 1, Len(key) - n),
                     index |-> DigitsValue(Slice(key, Len(key) - n + 1, Len(key)))])
        ELSE Raise("ValueError")

_parse_group_key_with_index(key, open_identifier, close_identifier) ==
    LET open_index == RIndex(key, open_identifier)
        close_index == RIndex(key, close_identifier)
        index == PyInt(Slice(key, open_index + 1, close_index - 1))
    IN  IF open_index = 0 \/ close_index = 0 THEN Raise("ValueError")
        ELSE IF index.exc # "none" THEN Raise("ValueError")
        ELSE Return([key |-> Slice(key, 1, open_index - 1), index |-> index.v])

parse_bracket_key_with_index(key) == _parse_group_key_with_index(key, "[", "]")

parse_parentheses_key_with_index(key) == _parse_group_key_with_index(key, "(", ")")

parse_key_with_index(convention, key) ==
    IF convention = CONVENTION_PREFIX THEN parse_prefix_key_with_index(key)
    ELSE IF convention = CONVENTION_BRACKET THEN parse_bracket_key_with_index(key)
    ELSE IF convention = CONVENTION_PARENTHESES THEN parse_parentheses_key_with_index(key)
    ELSE Raise("ValueError")

detect_key_convention(key) ==
    IF StartsWith(key, PREFIX_KEY_VALUE) THEN Return(CONVENTION_PREFIX)
    ELSE IF Len(key) = 0 THEN Raise("IndexError")
    ELSE IF key[Len(key)] = "]" THEN Return(CONVENTION_BRACKET)
    ELSE IF key[Len(key)] = ")" THEN Return(CONVENTION_PARENTHESES)
    ELSE Return(NoConvention)

\* the loop of convert_prefix_into_bracket_key over the components from
\* position i on; converted holds the components produced so far
RECURSIVE ConvertComponents(_, _, _)
ConvertComponent(components, i, converted, index) ==
    IF index.exc # "none"
    THEN ConvertComponents(components, i + 1, Append(converted, components[i]))
    ELSE IF Len(converted) = 0 THEN Raise("IndexError")
    ELSE ConvertComponents(components, i + 1,
             Append(converted,
                    generate_key_component(converted[Len(converted)], index.v,
                                           CONVENTION_BRACKET).v))

ConvertComponents(components, i, converted) ==
    IF i > Len(components) THEN Return(converted)
    ELSE ConvertComponent(components, i, converted, PyInt(components[i]))

\* key[_PREFIX_KEY_VALUE_LEN:] when key starts with the L_ marker
StripMarker(key) ==
    IF StartsWith(key, PREFIX_KEY_VALUE)
    THEN Slice(key, Len(PREFIX_KEY_VALUE) + 1, Len(key))
    ELSE key

\* lines 173-179: parsed is parse_prefix_key_with_index(converted[-1])
ConvertLastComponent(converted, parsed) ==
    IF parsed.exc = "IndexError" THEN parsed
    ELSE IF parsed.exc = "ValueError"
    THEN Return(Join(KEY_HIERARCHY_SEPARATOR, converted))
    ELSE Return(Join(KEY_HIERARCHY_SEPARATOR,
             Slice(converted, 1, Len(converted) - 1) \o
             <<generate_key_component(parsed.v.key, parsed.v.index,
                                      CONVENTION_BRACKET).v>>))

\* looped is the outcome of the loop over the components
ConvertLooped(looped) ==
    IF looped.exc # "none" THEN looped
    ELSE ConvertLastComponent(looped.v,
             parse_prefix_key_with_index(looped.v[Len(looped.v)]))

convert_prefix_into_bracket_key(key) ==
    IF Find(key, "_") = 0 THEN Return(key)
    ELSE ConvertLooped(ConvertComponents(Split(StripMarker(key), "_"), 1, <<>>))

\* the str components of a split key, as key components
AsComponents(parts) == [i \in 1..Len(parts) |-> K(parts[i])]

\* lines 231-239: parsed is parse_key_with_index(convention, initial_key)
ParseIndexed(initial_key, rest, parsed, strict_key_parsing) ==
    IF parsed.exc = "none"
    THEN Return([k |-> K(parsed.v.key),
                 remaining |-> <<I(parsed.v.index)>> \o rest])
    ELSE IF parsed.exc = "ValueError" /\ ~strict_key_parsing
    THEN Return([k |-> initial_key, remaining |-> rest])
    ELSE parsed

\* lines 227-229: convention is detect_key_convention(initial_key)
ParseDetected(initial_key, rest, convention, strict_key_parsing) ==
    IF convention.exc # "none" THEN convention
    ELSE IF convention.v = NoConvention
    THEN Return([k |-> initial_key, remaining |-> rest])
    ELSE ParseIndexed(initial_key, rest,
                      parse_key_with_index(convention.v, initial_key.v),
                      strict_key_parsing)

\* lines 220-222: components is the list of key components
ParseComponents(components, strict_key_parsing) ==
    IF Len(components) = 0 THEN Raise("IndexError")
    ELSE IF ~is_string(components[1])
    THEN Return([k |-> components[1], remaining |-> Tail(components)])
    ELSE ParseDetected(components[1], Tail(components),
                       detect_key_convention(components[1].v),
                       strict_key_parsing)

\* lines 213-214: bracket is convert_prefix_into_bracket_key(key)
ParseConverted(bracket, strict_key_parsing) ==
    IF bracket.exc # "none" THEN bracket
    ELSE ParseComponents(AsComponents(Split(bracket.v, ".")), strict_key_parsing)

\* key is a str (K) or a list of key components (L)
parse_hierarchical_key_path(key, strict_key_parsing) ==
    IF is_string(key)
    THEN ParseConverted(convert_prefix_into_bracket_key(key.v), strict_key_parsing)
    ELSE ParseComponents(key.v, strict_key_parsing)

(***************************************************************************)
(* Flattening: hierarchical dict -> list of (key, value) pairs.            *)
(* A pair is [key |-> str, value |-> scalar].  dict.iteritems() yields the *)
(* items in an order the language leaves open; the model visits them in    *)
(* sorted key order and the properties compare pairs irrespective of       *)
(* order.                                                                  *)
(***************************************************************************)
KeyStrings(d) == {k.v : k \in DOMAIN d}

RECURSIVE _convert_into_list(_, _, _, _)
RECURSIVE ConvertItems(_, _, _, _, _)
RECURSIVE ConvertElements(_, _, _, _, _, _)

\* line 493: inner is the outcome of the recursive call for one item
NextItem(inner, source, ks, convention, keys) ==
    IF inner.exc # "none" THEN inner
    ELSE ConvertItems(source, ks, convention, inner.v, keys)

\* for k, v in source.iteritems(): ... (lines 490-495)
ConvertItems(source, ks, convention, destination, keys) ==
    IF Len(ks) = 0 THEN Return(destination)
    ELSE NextItem(_convert_into_list(source.v[K(ks[1])], convention,
                                     destination, Append(keys, ks[1])),
                  source, Tail(ks), convention, keys)

\* line 520: inner is the outcome of the recursive call for one element
NextElement(inner, source, index, convention, keys, pk) ==
    IF inner.exc # "none" THEN inner
    ELSE ConvertElements(source, index, convention, inner.v, keys, pk)

\* lines 514-517: k is generate_key_component(pk, index, convention)
ConvertElement(k, source, index, convention, destination, keys, pk) ==
    IF k.exc # "none" THEN k
    ELSE NextElement(_convert_into_list(source.v[index + 1], convention,
                                        destination, Append(keys, k.v)),
                     source, index + 1, convention, keys, pk)

\* the loop over the elements with every element keyed by index 0
ConvertElementsUnindexed(source, index, convention, destination, keys, pk) ==
    IF index >= Len(source.v) THEN Return(destination)
    ELSE ConvertElement(generate_key_component(pk, 0, convention),
                        source, index, convention, destination, keys, pk)

\* for value in source: ... (lines 512-522); index is the 0-based position
ConvertElements(source, index, convention, destination, keys, pk) ==
    IF index >= Len(source.v) THEN Return(destination)
    ELSE ConvertElement(generate_key_component(pk, index, convention),
                        source, index, convention, destination, keys, pk)

\* keys and destination are sequences; the None defaults are empty sequences
_convert_into_list(source, convention, destination, keys) ==
    IF ~(is_dict(source) \/ is_non_string_sequence(source))
    THEN IF Len(keys) = 0 THEN Raise("TypeError")
         ELSE Return(Append(destination,
                  [key |-> generate_key(keys, convention), value |-> source]))
    ELSE IF is_dict(source)
    THEN ConvertItems(source, Sorted(KeyStrings(source.v)), convention,
                      destination, keys)
    ELSE IF Len(keys) = 0 THEN Raise("IndexError")
    ELSE IF Len(keys[Len(keys)]) = 0 THEN Raise("ValueError")
    ELSE ConvertElements(source, 0, convention, destination,
                         Slice(keys, 1, Len(keys) - 1), keys[Len(keys)])

\* get_hierarchical_pairs without the check of the root
get_hierarchical_pairs_any_root(source, convention) ==
    _convert_into_list(source, convention, <<>>, <<>>)

get_hierarchical_pairs(source, convention) ==
    IF ~is_dict(source) THEN Raise("ValueError")
    ELSE _convert_into_list(source, convention, <<>>, <<>>)

(***************************************************************************)
(* Unflattening: flat dict of key -> value(s) into a hierarchical dict.    *)
(***************************************************************************)
\* destination[k] = item for a dict
DictSet(d, k, item) == [c \in DOMAIN d \cup {k} |-> IF c = k THEN item ELSE d[c]]

\* a reference to the object source[key]: a list (or dict) the flat dict
\* holds, which the result may share with it
Ref(key) == [t |-> "r", v |-> key]

\* outcomes of the calls that may change the objects of source in place:
\* heap maps every key of source to the contents of source[key]
Done(x, heap) == [exc |-> "none", v |-> x, heap |-> heap]
Failed(e, heap) == [exc |-> e, v |-> <<>>, heap |-> heap]

\* the object x denotes
Deref(x, heap) == IF x.t = "r" THEN heap[x.v] ELSE x

\* destination once its contents were changed in place to content
Mutated(destination, content, heap) ==
    IF destination.t = "r"
    THEN Done(destination, DictSet(heap, destination.v, content))
    ELSE Done(content, heap)

\* x with every reference replaced by the contents of its object
RECURSIVE Resolve(_, _)
Resolve(x, heap) ==
    IF x.t = "r" THEN Resolve(heap[x.v], heap)
    ELSE IF x.t = "l" THEN L([i \in 1..Len(x.v) |-> Resolve(x.v[i], heap)])
    ELSE IF x.t = "m" THEN M([k \in DOMAIN x.v |-> Resolve(x.v[k], heap)])
    ELSE x

\* the value kept as the list of raw values it arrived in
CollapseNever(value, heap) == value

\* lines 555-557: a one-item list of values stands for its item (the raw
\* values are scalars)
CollapseSingle(value, heap) ==
    IF /\ is_non_string_sequence(Deref(value, heap))
       /\ Len(Deref(value, heap).v) = 1
    THEN Deref(value, heap).v[1]
    ELSE value

\* lines 573-581: the container the next key component asks for
Target(remaining_ks) ==
    IF Len(remaining_ks) > 0 /\ is_int(remaining_ks[1])
    THEN EmptyList
    ELSE EmptyDict

\* lines 584-585: the list once destination[k] is initialized
InitializedList(sequence, k, remaining_ks) ==
    IF sequence_has_index(sequence, k) THEN sequence
    ELSE ListInsert(sequence, k, Target(remaining_ks))

\* lines 586-587: the dict once destination[k] is initialized
InitializedDict(d, k, remaining_ks) ==
    IF k \in DOMAIN d THEN d ELSE DictSet(d, k, Target(remaining_ks))

\* destination[k] = item for the list sequence
ListSet(sequence, k, item) == [sequence EXCEPT ![Position(sequence, k)] = item]

\* line 589 for a list: inner is the outcome of the recursive call
StoreInList(destination, k, inner) ==
    IF inner.exc # "none" THEN inner
    ELSE Mutated(destination,
                 L(ListSet(Deref(destination, inner.heap).v, k, inner.v)),
                 inner.heap)

\* line 589 for a dict: inner is the outcome of the recursive call
StoreInDict(destination, k, inner) ==
    IF inner.exc # "none" THEN inner
    ELSE Mutated(destination,
                 M(DictSet(Deref(destination, inner.heap).v, k, inner.v)),
                 inner.heap)

RECURSIVE _convert_into_hierarchical_dict(_, _, _, _, _)

\* lines 589-591 for a list: initialized is the outcome of lines 584-585
AssignInList(initialized, k, remaining_ks, value, strict_key_parsing) ==
    IF ~sequence_has_index(Deref(initialized.v, initialized.heap).v, k)
    THEN Failed("IndexError", initialized.heap)
    ELSE StoreInList(initialized.v, k,
             _convert_into_hierarchical_dict(
                 Deref(initialized.v, initialized.heap).v[
                     Position(Deref(initialized.v, initialized.heap).v, k)],
                 L(remaining_ks), value, strict_key_parsing, initialized.heap))

\* lines 589-591 for a dict: initialized is the outcome of lines 586-587
AssignInDict(initialized, k, remaining_ks, value, strict_key_parsing) ==
    StoreInDict(initialized.v, k,
        _convert_into_hierarchical_dict(
            Deref(initialized.v, initialized.heap).v[k],
            L(remaining_ks), value, strict_key_parsing, initialized.heap))

\* lines 563-593: parsed is parse_hierarchical_key_path(keys)
Assign(destination, parsed, value, strict_key_parsing, heap) ==
    IF parsed.exc # "none" THEN Failed(parsed.exc, heap)
    ELSE IF is_non_string_sequence(Deref(destination, heap))
    THEN IF ~is_int(parsed.v.k) THEN Failed("TypeError", heap)
         ELSE AssignInList(
                  Mutated(destination,
                          L(InitializedList(Deref(destination, heap).v,
                                            parsed.v.k.v, parsed.v.remaining)),
                          heap),
                  parsed.v.k.v, parsed.v.remaining, value, strict_key_parsing)
    ELSE IF is_dict(Deref(destination, heap))
    THEN AssignInDict(
             Mutated(destination,
                     M(InitializedDict(Deref(destination, heap).v,
                                       parsed.v.k, parsed.v.remaining)),
                     heap),
             parsed.v.k, parsed.v.remaining, value, strict_key_parsing)
    ELSE Failed("TypeError", heap)

\* value is the value of one key of source: a scalar, or the reference to
\* the list of raw values
_convert_into_hierarchical_dict(destination, keys, value, strict_key_parsing, heap) ==
    IF Len(keys.v) = 0 THEN Done(CollapseSingle(value, heap), heap)
    ELSE Assign(destination,
                parse_hierarchical_key_path(keys, strict_key_parsing),
                value, strict_key_parsing, heap)

\* source[key] as it is passed on at line 129: lists and dicts by reference
ValueOf(source, key) ==
    IF source.v[key].t \in {"l", "m"} THEN Ref(key) ELSE source.v[key]

\* the loop of get_hierarchical_dict over the sorted keys (lines 128-130)
RECURSIVE FoldKeys(_, _, _, _, _)
NextKey(converted, sorted_keys, source, strict_key_parsing) ==
    IF converted.exc # "none" THEN converted
    ELSE FoldKeys(converted.v, sorted_keys, source, strict_key_parsing,
                  converted.heap)

FoldKeys(ret, sorted_keys, source, strict_key_parsing, heap) ==
    IF Len(sorted_keys) = 0 THEN Done(ret, heap)
    ELSE NextKey(_convert_into_hierarchical_dict(ret, K(sorted_keys[1]),
                     ValueOf(source, K(sorted_keys[1])), strict_key_parsing,
                     heap),
                 Tail(sorted_keys), source, strict_key_parsing)

\* the call of get_hierarchical_dict with the objects of source as they
\* are when it returns or raises
Decode(source, strict_key_parsing) ==
    FoldKeys(EmptyDict, Sorted(KeyStrings(source.v)), source,
             strict_key_parsing, source.v)

\* what the finished call hands to its caller
Outcome(decoded) ==
    IF decoded.exc # "none" THEN Raise(decoded.exc)
    ELSE Return(Resolve(decoded.v, decoded.heap))

\* the contents of source once the call has finished
SourceAfter(decoded) ==
    M([k \in DOMAIN decoded.heap |-> Resolve(decoded.heap[k], decoded.heap)])

get_hierarchical_dict(source, strict_key_parsing) ==
    Outcome(Decode(source, strict_key_parsing))

(***************************************************************************)
(* Inputs.                                                                 *)
(***************************************************************************)
\* nesting depth of the generated hierarchical values (the root dict is 1)
MaxDepth == 3
\* length of the generated lists
MaxLen == 2
\* number of keys of the generated flat dicts
MaxKeys == 2
\* length of the longest list given to the decoder one key per element
MaxIndexed == 11

Conventions == {CONVENTION_BRACKET, CONVENTION_PARENTHESES, CONVENTION_PREFIX}

Scalars == {S(<<"1">>), S(<<"2">>)}

\* the containers that hold v directly: lists with v first or last, dicts
\* holding v under "a" (alone or next to "b") or under the empty key
Wrap(v) ==
    {L(<<v>> \o [i \in 1..(n - 1) |-> S(<<"2">>)]) : n \in 1..MaxLen}
    \cup {L([i \in 1..(n - 1) |-> S(<<"1">>)] \o <<v>>) : n \in 2..MaxLen}
    \cup {M(K(<<"a">>) :> v),
          M((K(<<"a">>) :> v) @@ (K(<<"b">>) :> S(<<"2">>))),
          M(K(<<>>) :> v)}

RECURSIVE Vals(_)
Vals(d) ==
    IF d = 0 THEN Scalars \cup {EmptyList}
    ELSE Vals(d - 1) \cup UNION {Wrap(v) : v \in Vals(d - 1)}

\* the dict of test_get_hierarchical_pairs (tests/suite.py:110-119)
SamplePairSource ==
    M((K(<<"a">>) :>
          M((K(<<"b">>) :> L(<<S(<<"1">>), S(<<"2">>)>>)) @@
            (K(<<"c">>) :> L(<<S(<<"3">>), S(<<"4">>)>>)) @@
            (K(<<"d">>) :> L(<<L(<<S(<<"5">>), S(<<"6">>), S(<<"7">>)>>)>>)))) @@
      (K(<<"a", "s", "t", "r", "i", "n", "g">>) :> S(<<"H", "e", "l", "l", "o">>)))

PairSources == {v \in Vals(MaxDepth) : is_dict(v)} \cup {SamplePairSource}

\* a dict key holding '_' (the prefix separator) and a scalar
SampleUnderscoreKey == M(K(<<"F", "O", "O", "_", "B", "A", "R">>) :> S(<<"x">>))

\* a dict key that reads like the key component of a list element: the
\* element a[0] of the list a and the key 'a[0]'
SampleGroupInKey ==
    M((K(<<"a">>) :> L(<<S(<<"1">>)>>)) @@ (K(<<"a", "[", "0", "]">>) :> S(<<"2">>)))

\* roots that are no dict: scalars and lists (tests/suite.py:105-107 passes [])
NonDictSources == {v \in Vals(1) : ~is_dict(v)}

\* a convention tag that is none of the three (tests/suite.py:237-241)
InvalidConvention == "invalid_convention"

\* lists of key components given to generate_key: those of
\* test_generate_key (tests/suite.py:213-222) and shorter ones
ComponentSamples ==
    { <<K(<<"f", "o", "o", "[", "0", "]">>), K(<<"b", "a", "r", "[", "0", "]">>)>>,
      <<K(<<"F", "O", "O", "_", "0">>), K(<<"B", "A", "R", "_", "1">>),
        K(<<"Z", "A", "R", "_", "1", "3", "3", "7">>)>>,
      <<K(<<"a">>)>>, <<K(<<"a">>), K(<<"b">>)>>, <<K(<<"a", "_", "b">>)>>,
      <<K(<<"a", "_", "0">>)>>, <<K(<<"a", "_", "0", "_", "0">>)>>,
      <<K(<<"a", "_", "0">>), K(<<"b">>)>> }

\* raw keys given to the decoder and to the key functions
KeySamples ==
    { <<>>, <<"a">>, <<"b">>, <<"a", ".", "b">>, <<"a", ".", ".", "b">>,
      <<"a", ".">>,
      <<"a", "[", "0", "]">>, <<"a", "[", "1", "]">>, <<"a", "[", "2", "]">>,
      <<"a", "(", "0", ")">>, <<"a", "(", "1", ")">>,
      <<"a", "[", "0", "]", "[", "0", "]">>,
      <<"a", "[", "0", "]", ".", "b">>, <<"a", ".", "b", "[", "0", "]">>,
      <<"a", "[">>, <<"a", "[", "x", "]">>, <<"a", "]">>,
      <<"a", "[", "-", "1", "]">>,
      <<"A", "_", "0">>, <<"L", "_", "A", "0">>, <<"L", "_", "A", "1">>,
      <<"A", "_", "0", "_", "B">>, <<"0", "_", "A">>, <<"A", "_", "B", "1">> }

\* keys of the documentation and of the tests
DocKeys ==
    { <<"f", "o", "o", "b", "a", "r", "[">>,
      <<"f", "o", "o", "b", "a", "r", "[", "x", "]">>,
      <<"f", "o", "o", "b", "a", "r", "[", "0", "]">>,
      <<"L", "_", "F", "O", "O", "_", "0", "_", "B", "A", "R", "1">>,
      <<"F", "O", "O", "_", "0", "_", "0", "_", "0", "_", "B", "A", "R">>,
      <<"F", "O", "O", "_", "B", "A", "R", "_", "0", "_", "A">>,
      <<"f", "o", "o", ".", "b", "a", "r", "[", "0", "]", ".", "a">>,
      <<"d", "[", "0", "]", "[", "0", "]", "[", "0", "]">> }

\* keys whose index group holds a signed number: int() of util.py:446
\* reads the sign
SignedIndexKeys ==
    { <<"f", "o", "o", "[", "-", "1", "]">>, <<"f", "o", "o", "(", "-", "1", ")">>,
      <<"f", "o", "o", "[", "+", "1", "]">> }

\* key fragments given to detect_key_convention: those of
\* test_detect_key_convention (tests/suite.py:167-176), and fragments
\* with the L_ marker in either case before a closing ] or )
ConventionKeys ==
    { <<"L", "_", "S", "O", "M", "E", "K", "E", "Y", "0">>,
      <<"s", "o", "m", "e", "k", "e", "y", "[", "0", "]">>,
      <<"s", "o", "m", "e", "k", "e", "y", "(", "0", ")">>,
      <<"s", "o", "m", "e", "k", "e", "y">>,
      <<"l", "_", "s", "o", "m", "e", "k", "e", "y", "0">>,
      <<"L", "_", "a", "]">>, <<"L", "_", "a", ")">>,
      <<"l", "_", "a", "]">>, <<"l", "_", "a", ")">>, <<"L", "_">>, <<"l", "_">> }

\* the sets of at most n keys
RECURSIVE KeySets(_)
KeySets(n) ==
    IF n = 0 THEN {{}}
    ELSE KeySets(n - 1) \cup
         {ks \cup {k} : ks \in KeySets(n - 1), k \in KeySamples}

\* a flat dict as parse_qs delivers it: every key holds the list of its raw
\* values; the first raw value of a key is the key's own text, so that
\* values of different keys differ
FlatDict(ks, multi) ==
    M([c \in {K(k) : k \in ks} |->
          IF c.v \in multi THEN L(<<S(c.v), S(<<"y">>)>>) ELSE L(<<S(c.v)>>)])

\* every set ks of at most MaxKeys keys with every subset of it as the
\* keys that hold two raw values
GeneratedDictSources ==
    {FlatDict(p[1], p[2]) :
        p \in {q \in KeySets(MaxKeys) \X KeySets(MaxKeys) : q[2] \subseteq q[1]}}

\* the flat dicts of the documentation and of the tests, every value as
\* the one-element list parse_qs delivers
\* tests/suite.py:137-139
SampleMultiDim ==
    M((K(<<"a", ".", "d", "[", "0", "]", "[", "0", "]", "[", "0", "]">>) :> L(<<S(<<"5">>)>>)) @@
      (K(<<"a", ".", "d", "[", "0", "]", "[", "0", "]", "[", "1", "]">>) :> L(<<S(<<"6">>)>>)) @@
      (K(<<"a", ".", "d", "[", "0", "]", "[", "0", "]", "[", "2", "]">>) :> L(<<S(<<"7">>)>>)))

SampleBracketList ==
    M((K(<<"a", ".", "b", "[", "0", "]">>) :> L(<<S(<<"1">>)>>)) @@
      (K(<<"a", ".", "b", "[", "1", "]">>) :> L(<<S(<<"2">>)>>)))

SampleParenthesesList ==
    M((K(<<"a", ".", "b", "(", "0", ")">>) :> L(<<S(<<"1">>)>>)) @@
      (K(<<"a", ".", "b", "(", "1", ")">>) :> L(<<S(<<"2">>)>>)))

\* nvp/__init__.py:11
SampleBracketDoc ==
    M((K(<<"f", "o", "o", "[", "0", "]", ".", "a">>) :> L(<<S(<<"1">>)>>)) @@
      (K(<<"f", "o", "o", "[", "0", "]", ".", "b">>) :> L(<<S(<<"2">>)>>)) @@
      (K(<<"f", "o", "o", "[", "1", "]">>) :> L(<<S(<<"h", "e", "l", "l", "o", "w", "o", "r", "l", "d">>)>>)) @@
      (K(<<"f", "o", "o", "b", "a", "r">>) :> L(<<S(<<"1", "3", "3", "7">>)>>)))

\* nvp/__init__.py:32
SampleParenthesesDoc ==
    M((K(<<"f", "o", "o", "(", "0", ")", ".", "a">>) :> L(<<S(<<"1">>)>>)) @@
      (K(<<"f", "o", "o", "(", "0", ")", ".", "b">>) :> L(<<S(<<"2">>)>>)) @@
      (K(<<"f", "o", "o", "(", "1", ")">>) :> L(<<S(<<"h", "e", "l", "l", "o", "w", "o", "r", "l", "d">>)>>)) @@
      (K(<<"f", "o", "o", "b", "a", "r">>) :> L(<<S(<<"1", "3", "3", "7">>)>>)))

\* nvp/__init__.py:45
SamplePrefixDoc ==
    M((K(<<"F", "O", "O", "_", "0", "_", "A">>) :> L(<<S(<<"1">>)>>)) @@
      (K(<<"F", "O", "O", "_", "0", "_", "B">>) :> L(<<S(<<"2">>)>>)) @@
      (K(<<"L", "_", "F", "O", "O", "1">>) :> L(<<S(<<"h", "e", "l", "l", "o", "w", "o", "r", "l", "d">>)>>)) @@
      (K(<<"F", "O", "O", "B", "A", "R">>) :> L(<<S(<<"1", "3", "3", "7">>)>>)))

SamplePrefixList ==
    M((K(<<"L", "_", "A", "_", "0", "_", "B", "1">>) :> L(<<S(<<"h", "e", "l", "l", "o", "w", "o", "r", "l", "d">>)>>)))

\* the pairs of a list b of n elements, b[i] holding the text of i
IndexedList(n) ==
    M([c \in {K(<<"b", "[">> \o FormatInt(i) \o <<"]">>) : i \in 0..(n - 1)} |->
          L(<<S(Slice(c.v, 3, Len(c.v) - 1))>>)])

IndexedLists == {IndexedList(n) : n \in 1..MaxIndexed}

SampleDictSources ==
    {SampleMultiDim, SampleBracketList, SampleParenthesesList, SampleBracketDoc,
     SampleParenthesesDoc, SamplePrefixDoc, SamplePrefixList}

DictSources == GeneratedDictSources \cup SampleDictSources \cup IndexedLists

\* tests/suite.py:352-354
SampleDump == M(K(<<"f", "o", "o">>) :> S(<<"h", "e", "l", "l", "o">>))

DumpSources == {v \in Vals(1) : is_dict(v)} \cup {SampleDump}

QuerySamples ==
    { <<>>, <<"f", "o", "o", "=", "h", "e", "l", "l", "o">>,
      <<"a", "%", "5", "B", "0", "%", "5", "D", "=", "x", "&", "b", "=", "y">>,
      <<"a", "=", "x", "&", "a", "=", "y", "&", "b">> }

(***************************************************************************)
(* The API of nvp/__init__.py and the library calls it makes.              *)
(***************************************************************************)
\* the module-level names nvp/util.py defines
UtilNames ==
    {"CONVENTION_PREFIX", "CONVENTION_BRACKET", "CONVENTION_PARENTHESES",
     "DEFAULT_CONVENTION", "KEY_HIERARCHY_SEPARATOR",
     "KEY_PREFIX_HIERARCHY_SEPARATOR", "PREFIX_KEY_VALUE",
     "_PREFIX_KEY_VALUE_LEN", "_KEY_PARSERS", "traceback",
     "is_string", "is_int", "is_dict", "is_non_string_sequence",
     "sequence_has_index", "get_hierarchical_pairs", "get_hierarchical_dict",
     "convert_prefix_into_bracket_key", "parse_hierarchical_key_path",
     "detect_key_convention", "parse_prefix_key_with_index",
     "parse_bracket_key_with_index", "parse_parentheses_key_with_index",
     "parse_key_with_index", "generate_key", "generate_key_component",
     "_parse_group_key_with_index", "_convert_into_list",
     "_convert_into_hierarchical_dict"}

\* the names the body of nvp/__init__.py reads from util when it is imported
ImportedUtilNames ==
    {"CONVENTIONS", "CONVENTION_PREFIX", "CONVENTION_BRACKET",
     "CONVENTION_PARENTHESES"}

\* executing the module body: reading a name util lacks is an AttributeError
import_nvp ==
    IF ImportedUtilNames \subseteq UtilNames THEN Return(<<>>)
    ELSE Raise("AttributeError")

\* the parameters get_hierarchical_pairs accepts
get_hierarchical_pairs_parameters == {"source", "convention"}

\* the keyword arguments dumps passes to get_hierarchical_pairs
dumps_keywords == {"convention", "key_filter"}

\* the characters quote_plus escapes, with their escapes
Escapes ==
    ("%" :> <<"%", "2", "5">>) @@ ("&" :> <<"%", "2", "6">>) @@
    ("(" :> <<"%", "2", "8">>) @@ (")" :> <<"%", "2", "9">>) @@
    ("+" :> <<"%", "2", "B">>) @@ ("=" :> <<"%", "3", "D">>) @@
    ("[" :> <<"%", "5", "B">>) @@ ("]" :> <<"%", "5", "D">>) @@
    (" " :> <<"+">>)

\* urllib.quote_plus
RECURSIVE quote_plus(_)
quote_plus(s) ==
    IF Len(s) = 0 THEN <<>>
    ELSE (IF s[1] \in DOMAIN Escapes THEN Escapes[s[1]] ELSE <<s[1]>>)
         \o quote_plus(Tail(s))

\* urllib.unquote applied to s.replace('+', ' '); an escape that is not one
\* of Escapes is kept as it is
RECURSIVE unquote_plus(_)
unquote_plus(s) ==
    IF Len(s) = 0 THEN <<>>
    ELSE IF s[1] = "+" THEN <<" ">> \o unquote_plus(Tail(s))
    ELSE IF /\ s[1] = "%"
            /\ Len(s) >= 3
            /\ \E c \in DOMAIN Escapes : Escapes[c] = Slice(s, 1, 3)
    THEN <<CHOOSE c \in DOMAIN Escapes : Escapes[c] = Slice(s, 1, 3)>>
         \o unquote_plus(Slice(s, 4, Len(s)))
    ELSE <<s[1]>> \o unquote_plus(Tail(s))

\* urllib.urlencode of a list of pairs
urlencode(pairs) ==
    Join(<<"&">>, [i \in 1..Len(pairs) |->
                      quote_plus(pairs[i].key) \o <<"=">> \o
                      quote_plus(pairs[i].value.v)])

\* urlparse.parse_qs with keep_blank_values and strict_parsing off: fields
\* without '=' or with an empty value are dropped, the values of a repeated
\* name are collected in order
RECURSIVE CollectFields(_, _)
CollectFields(fields, params) ==
    IF Len(fields) = 0 THEN params
    ELSE LET at == Find(fields[1], "=")
             name == K(unquote_plus(Slice(fields[1], 1, at - 1)))
             value == S(unquote_plus(Slice(fields[1], at + 1, Len(fields[1]))))
         IN  IF at = 0 \/ at = Len(fields[1])
             THEN CollectFields(Tail(fields), params)
             ELSE IF name \in DOMAIN params
             THEN CollectFields(Tail(fields),
                      DictSet(params, name, L(Append(params[name].v, value))))
             ELSE CollectFields(Tail(fields),
                      DictSet(params, name, L(<<value>>)))

parse_qs(string) == M(CollectFields(Split(string, "&"), <<>>))

\* dumps(obj) with the default convention and key_filter
EncodePairs(pairs) ==
    IF pairs.exc # "none" THEN pairs ELSE Return(S(urlencode(pairs.v)))

dumps(obj, convention) ==
    IF ~(dumps_keywords \subseteq get_hierarchical_pairs_parameters)
    THEN Raise("TypeError")
    ELSE EncodePairs(get_hierarchical_pairs(obj, convention))

\* loads(string) with the default flags
loads(string, strict_key_parsing) ==
    IF Len(string.v) = 0 THEN Return(EmptyDict)
    ELSE IF ~is_string(string) THEN Return(string)
    ELSE get_hierarchical_dict(parse_qs(string.v), strict_key_parsing)

\* load(fp) with the default flags; fp.read() returns string
load(string, strict_key_parsing) == loads(string, strict_key_parsing)

(***************************************************************************)
(* The state machine: one call of a function of the package on arguments   *)
(* drawn from the input sets, and the decoding of the pairs an encoding    *)
(* returned.                                                               *)
(***************************************************************************)
VARIABLES
    pc,                  \* "call": fn is about to run, "returned": it has
    fn,                  \* the function called
    source,              \* its first argument, as it was passed
    source_now,          \* the contents of that object now
    convention,          \* its convention argument
    strict_key_parsing,  \* its strict_key_parsing argument
    result,              \* what the call returned or raised
    origin               \* the dict whose pairs are being decoded, if any

vars == <<pc, fn, source, source_now, convention, strict_key_parsing, result, origin>>

NoResult == Raise("pending")
NoOrigin == [set |-> FALSE, source |-> EmptyDict, convention |-> DEFAULT_CONVENTION]

\* the pairs of an encoding as the decoder's input: every key holds the
\* list of the values of its pairs, in order
RECURSIVE PairsAsSource(_, _)
PairsAsSource(pairs, params) ==
    IF Len(pairs) = 0 THEN M(params)
    ELSE LET name == K(pairs[1].key)
         IN  IF name \in DOMAIN params
             THEN PairsAsSource(Tail(pairs),
                      DictSet(params, name,
                              L(Append(params[name].v, pairs[1].value))))
             ELSE PairsAsSource(Tail(pairs),
                      DictSet(params, name, L(<<pairs[1].value>>)))

Init ==
    /\ pc = "call"
    /\ result = NoResult
    /\ origin = NoOrigin
    /\ \/ /\ fn = "get_hierarchical_pairs"
          /\ source \in PairSources \cup NonDictSources
                         \cup {SampleUnderscoreKey, SampleGroupInKey}
          /\ convention \in Conventions \cup {InvalidConvention}
          /\ strict_key_parsing = TRUE
       \/ /\ fn = "get_hierarchical_dict"
          /\ source \in DictSources
          /\ convention = DEFAULT_CONVENTION
          /\ strict_key_parsing \in BOOLEAN
       \/ /\ fn = "parse_hierarchical_key_path"
          /\ source \in {K(k) : k \in KeySamples \cup DocKeys \cup SignedIndexKeys}
          /\ convention = DEFAULT_CONVENTION
          /\ strict_key_parsing \in BOOLEAN
       \/ /\ fn = "convert_prefix_into_bracket_key"
          /\ source \in {K(k) : k \in KeySamples \cup DocKeys}
          /\ convention = DEFAULT_CONVENTION
          /\ strict_key_parsing = TRUE
       \/ /\ fn = "detect_key_convention"
          /\ source \in {K(k) : k \in KeySamples \cup DocKeys \cup ConventionKeys}
          /\ convention = DEFAULT_CONVENTION
          /\ strict_key_parsing = TRUE
       \/ /\ fn = "generate_key"
          /\ source \in {L(c) : c \in ComponentSamples}
          /\ convention \in Conventions \cup {InvalidConvention}
          /\ strict_key_parsing = TRUE
       \/ /\ fn = "dumps"
          /\ source \in DumpSources
          /\ convention = DEFAULT_CONVENTION
          /\ strict_key_parsing = TRUE
       \/ /\ fn = "load"
          /\ source \in {S(q) : q \in QuerySamples}
          /\ convention = DEFAULT_CONVENTION
          /\ strict_key_parsing = TRUE
    /\ source_now = source

GetHierarchicalPairs ==
    /\ pc = "call"
    /\ fn = "get_hierarchical_pairs"
    /\ result' = get_hierarchical_pairs(source, convention)
    /\ pc' = "returned"
    /\ UNCHANGED <<fn, source, source_now, convention, strict_key_parsing, origin>>

GetHierarchicalDict ==
    /\ pc = "call"
    /\ fn = "get_hierarchical_dict"
    /\ result' = get_hierarchical_dict(source, strict_key_parsing)
    /\ source_now' = SourceAfter(Decode(source, strict_key_parsing))
    /\ pc' = "returned"
    /\ UNCHANGED <<fn, source, convention, strict_key_parsing, origin>>

ParseHierarchicalKeyPath ==
    /\ pc = "call"
    /\ fn = "parse_hierarchical_key_path"
    /\ result' = parse_hierarchical_key_path(source, strict_key_parsing)
    /\ pc' = "returned"
    /\ UNCHANGED <<fn, source, source_now, convention, strict_key_parsing, origin>>

ConvertPrefixIntoBracketKey ==
    /\ pc = "call"
    /\ fn = "convert_prefix_into_bracket_key"
    /\ result' = convert_prefix_into_bracket_key(source.v)
    /\ pc' = "returned"
    /\ UNCHANGED <<fn, source, source_now, convention, strict_key_parsing, origin>>

DetectKeyConvention ==
    /\ pc = "call"
    /\ fn = "detect_key_convention"
    /\ result' = detect_key_convention(source.v)
    /\ pc' = "returned"
    /\ UNCHANGED <<fn, source, source_now, convention, strict_key_parsing, origin>>

GenerateKey ==
    /\ pc = "call"
    /\ fn = "generate_key"
    /\ result' = Return(generate_key([i \in 1..Len(source.v) |-> source.v[i].v],
                                     convention))
    /\ source_now' = L([i \in 1..Len(source.v) |->
                          K(ComponentsAfter([j \in 1..Len(source.v) |-> source.v[j].v],
                                            convention)[i])])
    /\ pc' = "returned"
    /\ UNCHANGED <<fn, source, convention, strict_key_parsing, origin>>

\* import nvp; nvp.dumps(source)
Dumps ==
    /\ pc = "call"
    /\ fn = "dumps"
    /\ result' = IF import_nvp.exc # "none" THEN import_nvp
                 ELSE dumps(source, convention)
    /\ pc' = "returned"
    /\ UNCHANGED <<fn, source, source_now, convention, strict_key_parsing, origin>>

\* import nvp; nvp.load(fp) for a stream holding source
Load ==
    /\ pc = "call"
    /\ fn = "load"
    /\ result' = IF import_nvp.exc # "none" THEN import_nvp
                 ELSE load(source, strict_key_parsing)
    /\ pc' = "returned"
    /\ UNCHANGED <<fn, source, source_now, convention, strict_key_parsing, origin>>

\* the caller hands the pairs an encoding returned to the decoder
DecodePairs ==
    /\ pc = "returned"
    /\ fn = "get_hierarchical_pairs"
    /\ result.exc = "none"
    /\ origin' = [set |-> TRUE, source |-> source, convention |-> convention]
    /\ source' = PairsAsSource(result.v, <<>>)
    /\ source_now' = PairsAsSource(result.v, <<>>)
    /\ fn' = "get_hierarchical_dict"
    /\ pc' = "call"
    /\ result' = NoResult
    /\ UNCHANGED <<convention, strict_key_parsing>>

Next ==
    \/ GetHierarchicalPairs
    \/ GetHierarchicalDict
    \/ ParseHierarchicalKeyPath
    \/ ConvertPrefixIntoBracketKey
    \/ DetectKeyConvention
    \/ GenerateKey
    \/ Dumps
    \/ Load
    \/ DecodePairs

Spec == Init /\ [][Next]_vars

(***************************************************************************)
(* Notions the properties are stated with.                                 *)
(***************************************************************************)
Returned(name) == pc = "returned" /\ fn = name

\* the decoder has returned from decoding the pairs of origin.source
RoundTripped == Returned("get_hierarchical_dict") /\ origin.set

MaxOf(ns) == IF ns = {} THEN 0 ELSE CHOOSE m \in ns : \A o \in ns : o <= m

\* the values a container holds directly
Children(x) ==
    IF x.t = "l" THEN {x.v[i] : i \in 1..Len(x.v)}
    ELSE IF x.t = "m" THEN {x.v[k] : k \in DOMAIN x.v}
    ELSE {}

\* number of container levels: 0 for a scalar, 1 for a dict of scalars
RECURSIVE Depth(_)
Depth(x) ==
    IF x.t \notin {"l", "m"} THEN 0
    ELSE 1 + MaxOf({Depth(c) : c \in Children(x)})

\* no empty list, no empty dict and no empty dict key anywhere in x
RECURSIVE Clean(_)
Clean(x) ==
    /\ x.t \in {"l", "m"} => Children(x) # {}
    /\ x.t = "m" => K(<<>>) \notin DOMAIN x.v
    /\ \A c \in Children(x) : Clean(c)

\* some dict in x holds a list under the empty key
RECURSIVE ListUnderEmptyKey(_)
ListUnderEmptyKey(x) ==
    \/ /\ x.t = "m"
       /\ K(<<>>) \in DOMAIN x.v
       /\ x.v[K(<<>>)].t = "l"
    \/ \E c \in Children(x) : ListUnderEmptyKey(c)

\* the number of scalar leaves of x
RECURSIVE LeafCount(_)
RECURSIVE SumOver(_, _)
SumOver(d, ks) ==
    IF ks = {} THEN 0
    ELSE LeafCount(d[CHOOSE k \in ks : TRUE])
         + SumOver(d, ks \ {CHOOSE k \in ks : TRUE})

LeafCount(x) == IF x.t \in {"l", "m"} THEN SumOver(x.v, DOMAIN x.v) ELSE 1

\* the bracket pairs of the leaves of x, whose path so far reads key
RECURSIVE LeafPairs(_, _)
LeafPairs(x, key) ==
    IF x.t = "l"
    THEN UNION {LeafPairs(x.v[i], key \o <<"[">> \o FormatInt(i - 1) \o <<"]">>) :
                    i \in 1..Len(x.v)}
    ELSE IF x.t = "m"
    THEN UNION {LeafPairs(x.v[k], key \o <<".">> \o k.v) : k \in DOMAIN x.v}
    ELSE {[key |-> key, value |-> x]}

\* the bracket pairs of the leaves of the root dict x
RootLeafPairs(x) == UNION {LeafPairs(x.v[k], k.v) : k \in DOMAIN x.v}

\* the pairs of a returned list of pairs, as a set
PairSet(pairs) == {pairs[i] : i \in 1..Len(pairs)}

\* x holds a list somewhere
RECURSIVE HasList(_)
HasList(x) == x.t = "l" \/ \E c \in Children(x) : HasList(c)

\* x holds a list of length 1 somewhere
RECURSIVE HasSingletonList(_)
HasSingletonList(x) ==
    \/ x.t = "l" /\ Len(x.v) = 1
    \/ \E c \in Children(x) : HasSingletonList(c)

\* every key of the flat dict x holds exactly one raw value
SingleValued(x) == \A k \in DOMAIN x.v : Len(x.v[k].v) = 1

\* the flat dict x with every one-element value list replaced by its element
Unwrapped(x) == M([k \in DOMAIN x.v |-> x.v[k].v[1]])

\* the raw key carries no index group: it ends no segment with ] or ) and
\* has no digit for the prefix normalization to turn into one
NoIndexGroup(key) ==
    \A i \in 1..Len(key) : key[i] \notin {"]", ")"} /\ ~IsDigit(key[i])

OtherGroupConvention(c) ==
    IF c = CONVENTION_BRACKET THEN CONVENTION_PARENTHESES ELSE CONVENTION_BRACKET

(***************************************************************************)
(* C1: round trip.  Decoding (strict) the pairs of the encoding of v with  *)
(* convention c gives v back, for every c and every v within c's depth     *)
(* limit.  Stated for dicts without empty containers and empty keys.       *)
(***************************************************************************)
ClaimC1_RoundTrip ==
    (/\ RoundTripped
     /\ origin.convention \in Conventions
     /\ Clean(origin.source)
     /\ origin.convention = CONVENTION_PREFIX => Depth(origin.source) <= 2)
    => result = Return(origin.source)

\* the pairs the test suite expects of SamplePairSource
SamplePairSet ==
    {[key |-> <<"a", ".", "b", "[", "0", "]">>, value |-> S(<<"1">>)],
     [key |-> <<"a", ".", "b", "[", "1", "]">>, value |-> S(<<"2">>)],
     [key |-> <<"a", ".", "c", "[", "0", "]">>, value |-> S(<<"3">>)],
     [key |-> <<"a", ".", "c", "[", "1", "]">>, value |-> S(<<"4">>)],
     [key |-> <<"a", ".", "d", "[", "0", "]", "[", "0", "]">>, value |-> S(<<"5">>)],
     [key |-> <<"a", ".", "d", "[", "0", "]", "[", "1", "]">>, value |-> S(<<"6">>)],
     [key |-> <<"a", ".", "d", "[", "0", "]", "[", "2", "]">>, value |-> S(<<"7">>)],
     [key |-> <<"a", "s", "t", "r", "i", "n", "g">>, value |-> S(<<"H", "e", "l", "l", "o">>)]}

(***************************************************************************)
(* C2: flattening with the bracket convention returns exactly one pair per *)
(* scalar leaf and no other pair, the key of a leaf being its dict keys    *)
(* joined by '.' with one [i] group per list level; the dict of the test   *)
(* suite yields exactly its eight pairs.  The call raises ValueError       *)
(* instead exactly when a list sits under an empty key.                    *)
(***************************************************************************)
ThmC2_BracketPairs ==
    (/\ Returned("get_hierarchical_pairs")
     /\ is_dict(source)
     /\ convention = CONVENTION_BRACKET)
    => /\ ListUnderEmptyKey(source) => result.exc = "ValueError"
       /\ ~ListUnderEmptyKey(source) =>
             /\ result.exc = "none"
             /\ Len(result.v) = LeafCount(source)
             /\ PairSet(result.v) = RootLeafPairs(source)
       /\ source = SamplePairSource =>
             /\ result.exc = "none"
             /\ PairSet(result.v) = SamplePairSet

WitC2_BracketPairs ==
    /\ Returned("get_hierarchical_pairs")
    /\ convention = CONVENTION_BRACKET
    /\ source = SamplePairSource
    /\ result.exc = "none"
    /\ Len(result.v) = 8

(***************************************************************************)
(* C3: several trailing index groups on one segment build one list level   *)
(* per group: a.d[0][0][0], a.d[0][0][1], a.d[0][0][2] decode to           *)
(* {a: {d: [[[5, 6, 7]]]}}.                                                *)
(***************************************************************************)
ClaimC3_MultiDim ==
    (Returned("get_hierarchical_dict") /\ source = SampleMultiDim)
    => result = Return(M((K(<<"a">>) :> M((K(<<"d">>) :> L(<<L(<<L(<<S(<<"5">>), S(<<"6">>), S(<<"7">>)>>)>>)>>))))))

(***************************************************************************)
(* C4: prefix key normalization: L_FOO_0_BAR1 becomes FOO[0].BAR[1] and    *)
(* FOO_0_0_0_BAR becomes FOO[0][0][0].BAR.                                 *)
(***************************************************************************)
ClaimC4_PrefixNormalization ==
    Returned("convert_prefix_into_bracket_key")
    => /\ source = K(<<"L", "_", "F", "O", "O", "_", "0", "_", "B", "A", "R", "1">>)
             => result = Return(<<"F", "O", "O", "[", "0", "]", ".", "B", "A", "R", "[", "1", "]">>)
       /\ source = K(<<"F", "O", "O", "_", "0", "_", "0", "_", "0", "_", "B", "A", "R">>)
             => result = Return(<<"F", "O", "O", "[", "0", "]", "[", "0", "]", "[", "0", "]", ".", "B", "A", "R">>)

(***************************************************************************)
(* C5, as stated: decoding a flat dict in which every key holds exactly    *)
(* one raw value never produces a list of length 1, whatever the keys.     *)
(***************************************************************************)
ClaimC5_NoSingletonList ==
    (/\ Returned("get_hierarchical_dict")
     /\ SingleValued(source)
     /\ result.exc = "none")
    => ~HasSingletonList(result.v)

(***************************************************************************)
(* C5, amended: decoding a flat dict in which every key holds exactly one  *)
(* raw value writes the raw value itself, never a one-element list, at the *)
(* key's path: the result is the one obtained from the same keys holding   *)
(* bare scalars, and it holds no list at all when no key carries an index  *)
(* group.                                                                  *)
(***************************************************************************)
ThmC5_SingleValueCollapse ==
    (/\ Returned("get_hierarchical_dict")
     /\ SingleValued(source))
    => /\ result = get_hierarchical_dict(Unwrapped(source), strict_key_parsing)
       /\ (/\ result.exc = "none"
           /\ \A k \in DOMAIN source.v : NoIndexGroup(k.v))
          => ~HasList(result.v)

WitC5_SingleValueCollapse ==
    /\ Returned("get_hierarchical_dict")
    /\ SingleValued(source)
    /\ DOMAIN source.v = {K(<<"a", ".", "b">>), K(<<"b">>)}
    /\ result = Return(M((K(<<"a">>) :> M((K(<<"b">>) :> S(<<"a", ".", "b">>)))) @@ (K(<<"b">>) :> S(<<"b">>))))

(***************************************************************************)
(* C6: flattening a structure nested three levels deep fails with the      *)
(* prefix convention and succeeds with the bracket and the parentheses     *)
(* convention.                                                             *)
(***************************************************************************)
ClaimC6_PrefixDepthLimit ==
    (/\ Returned("get_hierarchical_pairs")
     /\ is_dict(source)
     /\ convention \in Conventions
     /\ Clean(source)
     /\ Depth(source) >= 3)
    => IF convention = CONVENTION_PREFIX
       THEN result.exc # "none"
       ELSE result.exc = "none"

(***************************************************************************)
(* C7: with strict key parsing, parsing foobar[ and parsing foobar[x] both *)
(* fail with ValueError.                                                   *)
(***************************************************************************)
ClaimC7_MalformedKeys ==
    (/\ Returned("parse_hierarchical_key_path")
     /\ strict_key_parsing
     /\ source \in {K(<<"f", "o", "o", "b", "a", "r", "[">>),
                    K(<<"f", "o", "o", "b", "a", "r", "[", "x", "]">>)})
    => result.exc = "ValueError"

(***************************************************************************)
(* C8: bracket and parentheses are interchangeable on decode: the pairs of *)
(* one dict written with [n] and written with (n) decode to the same       *)
(* structure, and the documented examples decode as documented.            *)
(***************************************************************************)
ClaimC8_GroupsInterchangeable ==
    /\ (Returned("get_hierarchical_dict")
        /\ source \in {SampleBracketList, SampleParenthesesList})
       => result = Return(M((K(<<"a">>) :> M((K(<<"b">>) :> L(<<S(<<"1">>), S(<<"2">>)>>))))))
    /\ (Returned("get_hierarchical_dict") /\ source = SampleBracketDoc)
       => result = Return(M((K(<<"f", "o", "o">>) :> L(<<M((K(<<"a">>) :> S(<<"1">>)) @@ (K(<<"b">>) :> S(<<"2">>))), S(<<"h", "e", "l", "l", "o", "w", "o", "r", "l", "d">>)>>)) @@ (K(<<"f", "o", "o", "b", "a", "r">>) :> S(<<"1", "3", "3", "7">>))))
    /\ (/\ RoundTripped
        /\ Clean(origin.source)
        /\ origin.convention \in {CONVENTION_BRACKET, CONVENTION_PARENTHESES})
       => result = get_hierarchical_dict(
                       PairsAsSource(
                           get_hierarchical_pairs(origin.source,
                               OtherGroupConvention(origin.convention)).v,
                           <<>>),
                       strict_key_parsing)

(***************************************************************************)
(* C9: prefix keys decode with every numeric token as a list index on the  *)
(* preceding key: the documented query decodes to                          *)
(* {FOO: [{A: 1, B: 2}, helloworld], FOOBAR: 1337}, FOO_BAR_0_A parses to  *)
(* ('FOO', ['BAR', 0, 'A']) and L_A_0_B1 decodes to {A: [{B: helloworld}]}.*)
(***************************************************************************)
ClaimC9_PrefixDecode ==
    /\ (Returned("get_hierarchical_dict") /\ source = SamplePrefixDoc)
       => result = Return(M((K(<<"F", "O", "O">>) :> L(<<M((K(<<"A">>) :> S(<<"1">>)) @@ (K(<<"B">>) :> S(<<"2">>))), S(<<"h", "e", "l", "l", "o", "w", "o", "r", "l", "d">>)>>)) @@ (K(<<"F", "O", "O", "B", "A", "R">>) :> S(<<"1", "3", "3", "7">>))))
    /\ (Returned("parse_hierarchical_key_path")
        /\ source = K(<<"F", "O", "O", "_", "B", "A", "R", "_", "0", "_", "A">>))
       => result = Return([k |-> K(<<"F", "O", "O">>),
                           remaining |-> <<K(<<"B", "A", "R">>), I(0), K(<<"A">>)>>])
    /\ (Returned("get_hierarchical_dict") /\ source = SamplePrefixList)
       => result = Return(M((K(<<"A">>) :> L(<<M((K(<<"B">>) :> S(<<"h", "e", "l", "l", "o", "w", "o", "r", "l", "d">>)))>>))))

(***************************************************************************)
(* C10: for a flat dict v of text scalars, dumps(v) returns a query string *)
(* without raising, and load of a stream holding it returns v.             *)
(***************************************************************************)
ClaimC10_DumpsThenLoad ==
    (/\ Returned("dumps")
     /\ \A k \in DOMAIN source.v : source.v[k].t = "s")
    => /\ result.exc = "none"
       /\ load(result.v, TRUE) = Return(source)

(***************************************************************************)
(* C11: the root of an encoded structure must be a dict:                   *)
(* get_hierarchical_pairs raises ValueError for a list or a scalar as      *)
(* root, whatever the convention, and a list with no usable parent key (a  *)
(* list under an empty key) raises ValueError too, so that no returned key *)
(* starts with an index group.                                             *)
(***************************************************************************)
ThmC11_RootMustBeDict ==
    Returned("get_hierarchical_pairs")
    => /\ ~is_dict(source) => result = Raise("ValueError")
       /\ (is_dict(source) /\ ListUnderEmptyKey(source))
             => result = Raise("ValueError")
       /\ result.exc = "none"
             => \A p \in PairSet(result.v) :
                    Len(p.key) > 0 => p.key[1] \notin {"[", "("}

WitC11_RootMustBeDict ==
    /\ Returned("get_hierarchical_pairs")
    /\ source = EmptyList
    /\ result = Raise("ValueError")

(***************************************************************************)
(* C12: every key generation given a convention tag that is none of        *)
(* bracket, parentheses and prefix fails with ValueError: generate_key     *)
(* does, and flattening a dict with at least one scalar leaf does, also    *)
(* when the dict holds no list.                                            *)
(***************************************************************************)
ClaimC12_InvalidConvention ==
    /\ (Returned("generate_key") /\ convention \notin Conventions)
       => result.exc = "ValueError"
    /\ (/\ Returned("get_hierarchical_pairs")
        /\ is_dict(source)
        /\ convention \notin Conventions
        /\ LeafCount(source) >= 1)
       => result.exc = "ValueError"

\* the prefix keys C16 describes for the leaves of x: key is the path so
\* far, index the list position still to be written (-1 when there is none)
RECURSIVE PrefixLeafPairs(_, _, _)
PrefixLeafPairs(x, key, index) ==
    LET flushed == IF index >= 0
                   THEN key \o <<"_">> \o FormatInt(index) ELSE key
    IN  IF x.t = "l"
        THEN UNION {PrefixLeafPairs(x.v[i], flushed, i - 1) : i \in 1..Len(x.v)}
        ELSE IF x.t = "m"
        THEN UNION {PrefixLeafPairs(x.v[k], flushed \o <<"_">> \o k.v, -1) :
                        k \in DOMAIN x.v}
        ELSE {[key |-> IF index >= 0
                       THEN PREFIX_KEY_VALUE \o key \o FormatInt(index)
                       ELSE key,
               value |-> x]}

RootPrefixLeafPairs(x) == UNION {PrefixLeafPairs(x.v[k], k.v, -1) : k \in DOMAIN x.v}

(***************************************************************************)
(* C16: prefix key generation joins the components with '_' and prepends   *)
(* L_ exactly when the final component is a list index, which is appended  *)
(* to its key without separator: FOO_0, BAR_1, ZAR_1337 gives              *)
(* L_FOO_0_BAR_1_ZAR1337; a leaf under a dict key (also one holding '_')   *)
(* gets no marker and keeps its key text, a leaf in nested lists gets the  *)
(* marker.                                                                 *)
(***************************************************************************)
ClaimC16_PrefixKeys ==
    /\ (/\ Returned("generate_key")
        /\ convention = CONVENTION_PREFIX
        /\ source = L(<<K(<<"F", "O", "O", "_", "0">>), K(<<"B", "A", "R", "_", "1">>),
                        K(<<"Z", "A", "R", "_", "1", "3", "3", "7">>)>>))
       => result = Return(<<"L", "_", "F", "O", "O", "_", "0", "_", "B", "A", "R", "_", "1",
                            "_", "Z", "A", "R", "1", "3", "3", "7">>)
    /\ (/\ Returned("get_hierarchical_pairs")
        /\ convention = CONVENTION_PREFIX
        /\ is_dict(source)
        /\ Clean(source))
       => /\ result.exc = "none"
          /\ PairSet(result.v) = RootPrefixLeafPairs(source)

\* keys C13 calls malformed: an index group that is not closed, an index
\* that is no number, a numeric prefix token with no textual token before it
MalformedKeys == {<<"a", "[">>, <<"a", "[", "x", "]">>, <<"0", "_", "A">>}

\* the flat dict x without the keys in ks
WithoutKeys(x, ks) == M([k \in DOMAIN x.v \ {K(c) : c \in ks} |-> x.v[k]])

\* the value the decoder stores for the list of raw values of one key
Stored(values) == IF Len(values.v) = 1 THEN values.v[1] ELSE values

(***************************************************************************)
(* C17: decoding leaves its input unchanged: once get_hierarchical_dict    *)
(* has returned or raised, the flat dict has the same keys and every list  *)
(* of raw values the same elements as before the call.                     *)
(***************************************************************************)
ClaimC17_InputUnchanged ==
    Returned("get_hierarchical_dict") => source_now = source

(***************************************************************************)
(* C13: with strict_key_parsing false, decoding a flat dict that holds a   *)
(* malformed key raises no error: the malformed key is kept as a literal   *)
(* key holding its value and the other keys are decoded as usual.  Stated  *)
(* for flat dicts whose other keys decode without error on their own.      *)
(***************************************************************************)
ClaimC13_NonStrictNeverFails ==
    (/\ Returned("get_hierarchical_dict")
     /\ ~strict_key_parsing
     /\ KeyStrings(source.v) \cap MalformedKeys # {}
     /\ get_hierarchical_dict(WithoutKeys(source, MalformedKeys), FALSE).exc = "none")
    => /\ result.exc = "none"
       /\ \A c \in KeyStrings(source.v) \cap MalformedKeys :
             /\ K(c) \in DOMAIN result.v.v
             /\ result.v.v[K(c)] = Stored(source.v[K(c)])
       /\ WithoutKeys(result.v, MalformedKeys)
             = get_hierarchical_dict(WithoutKeys(source, MalformedKeys), FALSE).v

\* sets of keys that disagree about one path: a is a list for a[0] and a
\* dict for a.b; a holds a scalar for a and is a container for a.b or a[0]
ConflictingKeySets ==
    { {<<"a", "[", "0", "]">>, <<"a", ".", "b">>},
      {<<"a">>, <<"a", ".", "b">>},
      {<<"a">>, <<"a", "[", "0", "]">>} }

(***************************************************************************)
(* C14: when two keys of one flat dict disagree on whether a path is a     *)
(* list or a dict, or one key uses as a container a path another key fills *)
(* with a value, decoding raises an error; it returns no result.           *)
(***************************************************************************)
ClaimC14_ConflictDetected ==
    (/\ Returned("get_hierarchical_dict")
     /\ KeyStrings(source.v) \in ConflictingKeySets)
    => result.exc # "none"

\* the classification C15 describes
Classified(key) ==
    IF StartsWith(key, <<"L", "_">>) \/ StartsWith(key, <<"l", "_">>)
    THEN CONVENTION_PREFIX
    ELSE IF Len(key) > 0 /\ key[Len(key)] = "]" THEN CONVENTION_BRACKET
    ELSE IF Len(key) > 0 /\ key[Len(key)] = ")" THEN CONVENTION_PARENTHESES
    ELSE NoConvention

(***************************************************************************)
(* C15: convention detection is first match wins over a key fragment: a    *)
(* fragment beginning with L_ or l_ is prefix, also when it ends in ] or   *)
(* ); otherwise one ending in ] is bracket; otherwise one ending in ) is   *)
(* parentheses; otherwise no convention is reported.                       *)
(***************************************************************************)
ClaimC15_DetectionOrder ==
    Returned("detect_key_convention") => result = Return(Classified(source.v))

(***************************************************************************)
(* C18: decoding the keys in sorted order finds the positions of a list in *)
(* ascending order: for a list given with the contiguous indices 0..n-1,   *)
(* also for n greater than 10, decoding succeeds and element i of the      *)
(* decoded list is the value of the key with index i.                      *)
(***************************************************************************)
ClaimC18_SortedOrder ==
    \A n \in 1..MaxIndexed :
        (Returned("get_hierarchical_dict") /\ source = IndexedList(n))
        => result = Return(M(K(<<"b">>) :> L([i \in 1..n |-> S(FormatInt(i - 1))])))

(***************************************************************************)
(* C19: the indices of one list need not be contiguous: a[0] with a[2],    *)
(* a[1] alone and a[1] with a[2] decode without error to the list of the   *)
(* given values in ascending order of their indices.                       *)
(***************************************************************************)
ClaimC19_SparseIndices ==
    (Returned("get_hierarchical_dict") /\ SingleValued(source))
    => /\ KeyStrings(source.v) = {<<"a", "[", "0", "]">>, <<"a", "[", "2", "]">>}
             => result = Return(M(K(<<"a">>) :> L(<<S(<<"a", "[", "0", "]">>),
                                                    S(<<"a", "[", "2", "]">>)>>)))
       /\ KeyStrings(source.v) = {<<"a", "[", "1", "]">>}
             => result = Return(M(K(<<"a">>) :> L(<<S(<<"a", "[", "1", "]">>)>>)))
       /\ KeyStrings(source.v) = {<<"a", "[", "1", "]">>, <<"a", "[", "2", "]">>}
             => result = Return(M(K(<<"a">>) :> L(<<S(<<"a", "[", "1", "]">>),
                                                    S(<<"a", "[", "2", "]">>)>>)))

(***************************************************************************)
(* C20: the key-path parser resolves every trailing index group of a       *)
(* segment, rightmost first, into one integer component per group after    *)
(* the string component: foo.bar[0].a parses to ('foo', ['bar', 0, 'a'])   *)
(* and d[0][0][0] to 'd' followed by 0, 0, 0.                              *)
(***************************************************************************)
ClaimC20_EveryIndexGroup ==
    Returned("parse_hierarchical_key_path")
    => /\ source = K(<<"f", "o", "o", ".", "b", "a", "r", "[", "0", "]", ".", "a">>)
             => result = Return([k |-> K(<<"f", "o", "o">>),
                                 remaining |-> <<K(<<"b", "a", "r">>), I(0), K(<<"a">>)>>])
       /\ source = K(<<"d", "[", "0", "]", "[", "0", "]", "[", "0", "]">>)
             => result = Return([k |-> K(<<"d">>),
                                 remaining |-> <<I(0), I(0), I(0)>>])

\* keys whose index group holds a negative integer or no integer
BadIndexKeys ==
    { <<"f", "o", "o", "[", "-", "1", "]">>, <<"f", "o", "o", "(", "-", "1", ")">>,
      <<"a", "[", "-", "1", "]">>, <<"a", "[", "x", "]">>,
      <<"f", "o", "o", "b", "a", "r", "[", "x", "]">> }

(***************************************************************************)
(* C21: an index group is accepted only when its content is a non-negative *)
(* integer: with strict key parsing, parsing a key whose group holds a     *)
(* negative integer (foo[-1], foo(-1)) or no integer (a[x]) fails with     *)
(* ValueError, and no parsed key path holds a negative index.              *)
(***************************************************************************)
ClaimC21_NonNegativeIndex ==
    Returned("parse_hierarchical_key_path")
    => /\ (strict_key_parsing /\ source.v \in BadIndexKeys)
             => result.exc = "ValueError"
       /\ result.exc = "none"
             => \A i \in 1..Len(result.v.remaining) :
                    is_int(result.v.remaining[i]) => result.v.remaining[i].v >= 0

\* keys with an empty fragment: a..b, a. and the empty key
EmptyFragmentKeys == {<<"a", ".", ".", "b">>, <<"a", ".">>, <<>>}

(***************************************************************************)
(* C22: detect_key_convention never fails: for every key fragment, the     *)
(* empty one included, it returns prefix, bracket, parentheses or no       *)
(* convention, and decoding a flat dict whose keys are among a..b, a. and  *)
(* the empty key raises no IndexError out of the detection.                *)
(***************************************************************************)
ClaimC22_DetectionNeverFails ==
    /\ Returned("detect_key_convention")
          => /\ result.exc = "none"
             /\ result.v \in Conventions \cup {NoConvention}
    /\ (/\ Returned("get_hierarchical_dict")
        /\ KeyStrings(source.v) # {}
        /\ KeyStrings(source.v) \subseteq EmptyFragmentKeys)
          => result.exc # "IndexError"

\* the path a key names: the components the decoder parses out of it one
\* after the other (util.py:563 in every recursion); parsed is the outcome
\* of parsing the components still to come
RECURSIVE PathOf(_, _)
PathAfter(parsed, strict) ==
    IF parsed.exc # "none" THEN <<>>
    ELSE <<parsed.v.k>> \o PathOf(L(parsed.v.remaining), strict)

PathOf(keys, strict) ==
    IF Len(keys.v) = 0 THEN <<>>
    ELSE PathAfter(parse_hierarchical_key_path(keys, strict), strict)

Missing == [t |-> "missing", v |-> <<>>]

\* what x holds at path: x[path[1]][path[2]]..., Missing when there is no
\* such position
RECURSIVE ValueAt(_, _)
ValueAt(x, path) ==
    IF Len(path) = 0 THEN x
    ELSE IF is_dict(x) /\ path[1] \in DOMAIN x.v
    THEN ValueAt(x.v[path[1]], Tail(path))
    ELSE IF /\ is_non_string_sequence(x)
            /\ is_int(path[1])
            /\ sequence_has_index(x.v, path[1].v)
    THEN ValueAt(x.v[Position(x.v, path[1].v)], Tail(path))
    ELSE Missing

(***************************************************************************)
(* C23: no value is lost while folding: whenever get_hierarchical_dict     *)
(* returns without raising, the result is a dict and, for every key of the *)
(* input, the collapsed value of that key is found in the result at the    *)
(* position the key's parsed path names.                                   *)
(***************************************************************************)
ClaimC23_NoValueLost ==
    (Returned("get_hierarchical_dict") /\ result.exc = "none")
    => /\ is_dict(result.v)
       /\ \A key \in DOMAIN source.v :
             ValueAt(result.v, PathOf(key, strict_key_parsing))
                 = Stored(source.v[key])

\* a dict key that is not empty and holds none of . [ ] ( )
PlainKey(k) ==
    /\ Len(k) > 0
    /\ \A i \in 1..Len(k) : k[i] \notin {".", "[", "]", "(", ")"}

\* every key of every dict in x is plain
RECURSIVE PlainKeys(_)
PlainKeys(x) ==
    /\ is_dict(x) => \A k \in DOMAIN x.v : PlainKey(k.v)
    /\ \A c \in Children(x) : PlainKeys(c)

\* the keys of a returned list of pairs
FlatKeys(pairs) == {pairs[i].key : i \in 1..Len(pairs)}

(***************************************************************************)
(* C24: flat keys are unique per leaf under the bracket and parentheses    *)
(* conventions: for a dict whose keys, at every level, are non-empty and   *)
(* hold none of . [ ] ( ), flattening returns one pair per scalar leaf and *)
(* the number of distinct keys among the pairs is the number of scalar     *)
(* leaves.                                                                 *)
(***************************************************************************)
ThmC24_DistinctFlatKeys ==
    (/\ Returned("get_hierarchical_pairs")
     /\ convention \in {CONVENTION_BRACKET, CONVENTION_PARENTHESES}
     /\ is_dict(source)
     /\ PlainKeys(source))
    => /\ result.exc = "none"
       /\ Len(result.v) = LeafCount(source)
       /\ Cardinality(FlatKeys(result.v)) = LeafCount(source)

WitC24_DistinctFlatKeys ==
    /\ Returned("get_hierarchical_pairs")
    /\ convention = CONVENTION_PARENTHESES
    /\ is_dict(source)
    /\ PlainKeys(source)
    /\ Depth(source) = 3
    /\ HasList(source)
    /\ LeafCount(source) >= 3
    /\ result.exc = "none"
    /\ Cardinality(FlatKeys(result.v)) = LeafCount(source)

====
